---- MODULE Spec2Model ----
(***************************************************************************)
(* Model of the raw-protocol probes of tls-vuln-checker:                   *)
(*   - Heartbleed.Check with checkExtension and heartbeatListen            *)
(*     (src/vulnerabilities/heartbleed/heartbleed.go),                     *)
(*   - CCSInjection.Check with readTLSRecord                               *)
(*     (src/vulnerabilities/ccs/ccs.go),                                   *)
(*   - the message builders (heartbleed_bytes.go, its variant with         *)
(*     computed lengths, and buildClientHello of ccs.go).                  *)
(*                                                                         *)
(* Bytes are numbers 0..255, messages are sequences of bytes.  Time is     *)
(* not measured: a timer or a deadline can expire only while the code      *)
(* that depends on it waits (blocked in a read, or asleep), and the peer   *)
(* acts only while the probe waits for it.                                 *)
(***************************************************************************)
EXTENDS Integers, Sequences, FiniteSets, TLC

(***************************************************************************)
(* Bounds of the model (not program constants).                            *)
(***************************************************************************)
\* chunks the peer may send during the heartbeat probe's capability scan
MaxHelloChunks == 3
\* bursts the peer may send after the malformed heartbeat request
MaxBursts == 5
\* chunks (records or pieces of records) the peer may send to the CCS probe
MaxRecChunks == 3

(***************************************************************************)
(* Program constants.                                                      *)
(***************************************************************************)
\* heartbleed.go:48-53, ccs.go:22-26
notApplicable == "n/a"
notVulnerable == "no"
vulnerable == "yes"
testFailed == "error"

\* crypto/tls.VersionTLS12, the clamp of heartbleed.go:80-82
VersionTLS12 == 771

\* heartbleed_bytes.go:11-17
recordTypeHandshake == 22
recordTypeHeartbeat == 24
heartbeatMessageType == 1
handshakeTypeHello == 1
defaultHeartbeatLen == 16384

\* ccs.go:33-53
recordTypeChangeCipherSpec == 20
recordTypeAlert == 21
handshakeTypeClientHello == 1
handshakeTypeServerHelloDone == 14
alertLevelFatal == 2
alertUnexpectedMessage == 10

\* heartbleed.go:209 and :225, the size that counts as a leak
Threshold == 1600
\* heartbleed.go:199, the give-up count of the background reader
MaxEmpty == 3
\* bufio.NewReader(conn) of heartbleed.go:101: the default buffer size
BufSize == 4096

(***************************************************************************)
(* Bytes, big-endian encoding, hexadecimal rendering.                      *)
(***************************************************************************)
Min(a, b) == IF a < b THEN a ELSE b

Take(s, n) == SubSeq(s, 1, Min(n, Len(s)))

Drop(s, n) == SubSeq(s, Min(n, Len(s)) + 1, Len(s))

\* binary.Write(buf, binary.BigEndian, uint16(v)): two bytes, high first;
\* the conversion to uint16 keeps the low 16 bits
U16(v) == << (v % 65536) \div 256, v % 256 >>

\* binary.Write of a uint8
U8(v) == << v % 256 >>

\* the 24-bit length []byte{0, byte(n >> 8), byte(n)} of makeClientHello
U24(n) == << 0, (n \div 256) % 256, n % 256 >>

\* the number a big-endian byte sequence encodes
BE(s) == IF Len(s) = 0 THEN 0
         ELSE IF Len(s) = 1 THEN s[1]
         ELSE IF Len(s) = 2 THEN s[1] * 256 + s[2]
         ELSE s[1] * 65536 + s[2] * 256 + s[3]

\* fmt.Sprintf("%X", data): two hexadecimal digits per byte, high digit
\* first; a digit is a number 0..15
Hex(data) ==
  [k \in 1..(2 * Len(data)) |->
     IF k % 2 = 1 THEN data[(k + 1) \div 2] \div 16 ELSE data[k \div 2] % 16]

\* hex.DecodeString: two digits make one byte
HexDecode(digits) ==
  [k \in 1..(Len(digits) \div 2) |-> digits[2 * k - 1] * 16 + digits[2 * k]]

\* strings.HasSuffix
HasSuffix(s, suffix) ==
  /\ Len(s) >= Len(suffix)
  /\ SubSeq(s, Len(s) - Len(suffix) + 1, Len(s)) = suffix

\* the literal "000F000101" of heartbleed.go:156, as hexadecimal digits
hbMarkerHex == << 0, 0, 0, 15, 0, 0, 0, 1, 0, 1 >>

\* the literal "0E000000" of heartbleed.go:161, as hexadecimal digits
flightEndHex == << 0, 14, 0, 0, 0, 0, 0, 0 >>

\* whether pat occurs in s as a contiguous run of whole elements
Occurs(pat, s) ==
  \E k \in 0..(Len(s) - Len(pat)) : SubSeq(s, k + 1, k + Len(pat)) = pat

(***************************************************************************)
(* Message builders.                                                       *)
(***************************************************************************)
\* the hexadecimal literal restOfHello of heartbleed_bytes.go:87
restOfHello ==
  <<
     0,0,0,0,6,6,12,0,1,4,12,0,0,10,12,0,2,2,12,0,2,1,0,0,3,9,0,0,3,8,0,0,
     8,8,0,0,8,7,12,0,0,15,12,0,0,5,0,0,3,5,0,0,8,4,12,0,1,2,12,0,0,8,12,0,
     1,12,12,0,1,11,0,0,1,6,0,0,1,3,12,0,0,13,12,0,0,3,0,0,0,10,12,0,1,3,12,0,
     0,9,12,0,1,15,12,0,1,14,0,0,3,3,0,0,3,2,0,0,9,10,0,0,9,9,0,0,4,5,0,0,
     4,4,12,0,0,14,12,0,0,4,0,0,2,15,0,0,9,6,0,0,4,1,12,0,1,1,12,0,0,7,12,0,
     0,12,12,0,0,2,0,0,0,5,0,0,0,4,0,0,1,5,0,0,1,2,0,0,0,9,0,0,1,4,0,0,
     1,1,0,0,0,8,0,0,0,6,0,0,0,3,0,0,15,15,0,1,0,0,0,0,4,9,0,0,0,11,0,0,
     0,4,0,3,0,0,0,1,0,2,0,0,0,10,0,0,3,4,0,0,3,2,0,0,0,14,0,0,0,13,0,0,
     1,9,0,0,0,11,0,0,0,12,0,0,1,8,0,0,0,9,0,0,0,10,0,0,1,6,0,0,1,7,0,0,
     0,8,0,0,0,6,0,0,0,7,0,0,1,4,0,0,1,5,0,0,0,4,0,0,0,5,0,0,1,2,0,0,
     1,3,0,0,0,1,0,0,0,2,0,0,0,3,0,0,0,15,0,0,1,0,0,0,1,1,0,0,2,3,0,0,
     0,0,0,0,0,15,0,0,0,1,0,1
  >>

\* makePayload, heartbleed_bytes.go:39-56
makePayload(tlsVers) ==
  U8(recordTypeHeartbeat) \o U16(tlsVers) \o U16(3)
    \o U8(heartbeatMessageType) \o U16(defaultHeartbeatLen)

\* a ClientHello whose random bytes come after the rest of the hello
makeClientHelloNonceLate(tlsVers, random) ==
  U8(recordTypeHandshake) \o U16(tlsVers) \o U16(220)
    \o U8(handshakeTypeHello) \o << 0, 0, 216 >>
    \o U16(tlsVers) \o HexDecode(restOfHello) \o random

\* makeClientHello, heartbleed_bytes.go:58-92 (lengths written as literals)
makeClientHello(tlsVers, random) ==
  U8(recordTypeHandshake) \o U16(tlsVers) \o U16(220)
    \o U8(handshakeTypeHello) \o << 0, 0, 216 >>
    \o U16(tlsVers) \o random \o HexDecode(restOfHello)

\* the cipher suite catalog of the variant with computed lengths
defaultCipherSuites ==
  <<
     49172, 49162, 49186, 49185, 57, 56, 136, 135, 49167, 49157,
     53, 132, 49170, 49160, 49180, 49179, 22, 19, 49165, 49155,
     10, 49171, 49161, 49183, 49182, 51, 50, 154, 153, 69,
     68, 49166, 49156, 47, 150, 65, 49169, 49159, 49164, 49154,
     5, 4, 21, 18, 9, 20, 17, 8, 6, 3
  >>

\* the extension list of the variant with computed lengths
helloExtensions ==
  << [Type |-> 0, Data |-> << 0, 11, 0, 4, 3, 0, 1, 2 >>],
     [Type |-> 65281, Data |-> << 0 >>],
     [Type |-> 35, Data |-> << >>],
     [Type |-> 15, Data |-> << 1 >>] >>

RECURSIVE EncodeU16s(_)
\* the loop writing each uint16 of a list big-endian
EncodeU16s(list) ==
  IF list = << >> THEN << >> ELSE U16(Head(list)) \o EncodeU16s(Tail(list))

RECURSIVE EncodeExtensions(_)
\* the loop writing type, length and data of each extension
EncodeExtensions(exts) ==
  IF exts = << >> THEN << >>
  ELSE U16(Head(exts).Type) \o U16(Len(Head(exts).Data)) \o Head(exts).Data
         \o EncodeExtensions(Tail(exts))

\* hsBuf of the variant with computed lengths: the handshake body
helloBodyComputed(tlsVers, random) ==
  U16(tlsVers) \o random \o U8(0)
    \o U16(Len(defaultCipherSuites) * 2) \o EncodeU16s(defaultCipherSuites)
    \o U8(1) \o U8(0)
    \o U16(Len(EncodeExtensions(helloExtensions)))
    \o EncodeExtensions(helloExtensions)

\* makeClientHello of the variant with computed lengths
makeClientHelloComputed(tlsVers, random) ==
  U8(recordTypeHandshake) \o U16(tlsVers)
    \o U16(Len(helloBodyComputed(tlsVers, random)) + 4)
    \o U8(handshakeTypeHello)
    \o U24(Len(helloBodyComputed(tlsVers, random)))
    \o helloBodyComputed(tlsVers, random)

\* the cipher suites of buildClientHello, ccs.go:219-222
ccsCipherSuites ==
  << 49195, 49199, 49196, 49200, 52393, 52392, 49171, 49172,
     156, 157, 47, 53, 49170, 10 >>

\* the handshake message of buildClientHello, ccs.go:204-241
ccsHelloHandshake(random) ==
  U8(handshakeTypeClientHello) \o << 0, 0, 53 >>
    \o << 3, 3 >> \o random \o U8(0)
    \o U16(Len(ccsCipherSuites) * 2) \o EncodeU16s(ccsCipherSuites)
    \o U8(1) \o U8(0) \o << 0, 0 >>

\* buildClientHello, ccs.go:193-256
buildClientHello(random) ==
  U8(recordTypeHandshake) \o << 3, 1 >>
    \o U16(Len(ccsHelloHandshake(random))) \o ccsHelloHandshake(random)

\* ccsMessage, ccs.go:109
ccsMessage == << recordTypeChangeCipherSpec, 3, 1, 0, 1, 1 >>

(***************************************************************************)
(* Inputs and the peer's repertoire.                                       *)
(***************************************************************************)
\* the tlsVers argument of Heartbleed.Check: TLS 1.0, TLS 1.2, TLS 1.3
Versions == { 769, 771, 772 }

\* values of the 32-byte random field (rand.Read)
Nonces == { [k \in 1..32 |-> 0], [k \in 1..32 |-> 171] }

\* the heartbeat extension as it appears in a ServerHello: 00 0F 00 01 01
CapMarker == << 0, 15, 0, 1, 1 >>

\* an empty ServerHelloDone handshake message: 0E 00 00 00
FlightEnd == << 14, 0, 0, 0 >>

\* bytes 00 00 F0 00 10 10, whose rendering "0000F0001010" holds the digits
\* of the marker one half-byte off the byte boundaries
ShiftedMarker == << 0, 0, 240, 0, 16, 16 >>

\* what the peer may send while the heartbeat probe scans its hello flight
HelloChunks == { CapMarker, FlightEnd, << 0 >>, << 15, 0, 1, 1 >>, ShiftedMarker }

\* sizes of the bursts the peer may send after the heartbeat request
BurstSizes == { 1, 1599, 1600 }

(***************************************************************************)
(* State.                                                                  *)
(***************************************************************************)
VARIABLES
  probe,            \* which entry point runs: "hb", "ccs" or "build"
  pc,               \* position of Check
  tlsVers,          \* the tlsVers parameter of Heartbleed.Check
  reqVers,          \* the version Check was called with
  Vulnerable,       \* the result's Vulnerable field ("" on a fresh result)
  ExtensionEnabled, \* the result's ExtensionEnabled field
  err,              \* the error Check returns ("nil" for nil)
  assigns,          \* how often Vulnerable was assigned
  conn,             \* "none", "open" or "closed"
  wrote,            \* the messages written on conn, in order
  ops,              \* [upgrades, reads, closes]: calls made so far
  peer,             \* "open", "quiet" (open and silent for good), "closed", "reset"
  net,              \* bytes received on the socket and not yet read
  netResp,          \* count of bytes of the peer's heartbeat response among them
  sent,             \* [chunks, bursts, resp, stream]: what the peer sent so far
  buf,              \* connbuf: the hello bytes buffered by the bufio.Reader
  bufResp,          \* count of response bytes buffered by the bufio.Reader
  data,             \* the local data of checkExtension
  hBEnabled,        \* the flag of checkExtension
  scan,             \* [end, err, cap]: how checkExtension ended
  gpc,              \* position of the goroutine of heartbeatListen
  g,                \* its locals: [dh, dr, i, fills]
  timeout,          \* time.After(1s): "none", "pending", "fired", "taken"
  dataChan,         \* the buffered channel dataChan
  done,             \* whether the channel done is closed
  hand,             \* [sends, recvs, lateReads]: the handoff so far
  rd,               \* the bytes the running readTLSRecord has read so far
  deadline,         \* whether conn has a read deadline
  ccs,              \* [shd, imm, immGot, fin, finGot]: how the wait and the two last reads ended
  built,            \* the messages built by direct calls of the builders
  pkg               \* the package-level variables: [startTLSFunc, defaultCipherSuites]

\* the package-level variables as the program starts: startTLSFunc,
\* heartbleed.go:16, and the cipher suite catalog
PackageState ==
  [startTLSFunc |-> "starttls.StartTLS",
   defaultCipherSuites |-> defaultCipherSuites]

resultVars == << Vulnerable, ExtensionEnabled, err, assigns >>

connVars == << conn, wrote, ops >>

peerVars == << peer, net, netResp, sent >>

scanVars == << buf, bufResp, data, hBEnabled, scan >>

listenVars == << gpc, g, timeout, dataChan, done, hand >>

ccsVars == << rd, deadline, ccs >>

hbVars == << tlsVers, reqVers, scanVars, listenVars >>

vars == << probe, pc, tlsVers, reqVers, resultVars, connVars, peerVars, scanVars,
           listenVars, ccsVars, built, pkg >>

Init ==
  /\ probe \in { "hb", "ccs", "build" }
  /\ pc = "start"
  /\ tlsVers \in (IF probe = "hb" THEN Versions ELSE { 0 })
  /\ reqVers = tlsVers
  /\ Vulnerable = ""
  /\ ExtensionEnabled = FALSE
  /\ err = "nil"
  /\ assigns = 0
  /\ conn = "none"
  /\ wrote = << >>
  /\ ops = [upgrades |-> 0, reads |-> 0, closes |-> 0]
  /\ peer = "open"
  /\ net = << >>
  /\ netResp = 0
  /\ sent = [chunks |-> 0, bursts |-> 0, resp |-> 0, stream |-> << >>]
  /\ buf = << >>
  /\ bufResp = 0
  /\ data = << >>
  /\ hBEnabled = FALSE
  /\ scan = [end |-> "none", err |-> "nil", cap |-> FALSE]
  /\ gpc = "idle"
  /\ g = [dh |-> 0, dr |-> 0, i |-> 0, fills |-> 0]
  /\ timeout = "none"
  /\ dataChan = << >>
  /\ done = FALSE
  /\ hand = [sends |-> 0, recvs |-> 0, lateReads |-> 0]
  /\ rd = << >>
  /\ deadline = FALSE
  /\ ccs = [shd |-> << >>, imm |-> "none", immGot |-> << >>,
            fin |-> "none", finGot |-> << >>]
  /\ built = << >>
  /\ pkg = PackageState

(***************************************************************************)
(* Heartbleed.Check, heartbleed.go:61-136.                                 *)
(***************************************************************************)
\* no clamp: the version goes into the messages as requested
clampVersionNone(v) == v

\* the clamp of heartbleed.go:80-82
clampVersion(v) == IF v > VersionTLS12 THEN VersionTLS12 ELSE v

\* a return that hands back a nil error whatever went wrong
ReturnClosingNilError(v, e) ==
  /\ Vulnerable' = v
  /\ assigns' = assigns + 1
  /\ err' = "nil"
  /\ pc' = "done"
  /\ conn' = "closed"

\* a return that leaves the connection open
ReturnNotClosing(v, e) ==
  /\ Vulnerable' = v
  /\ assigns' = assigns + 1
  /\ err' = e
  /\ pc' = "done"
  /\ conn' = conn

\* a return of Check after the dial: the result, the error, and the
\* deferred conn.Close() of heartbleed.go:74
ReturnClosing(v, e) ==
  /\ Vulnerable' = v
  /\ assigns' = assigns + 1
  /\ err' = e
  /\ pc' = "done"
  /\ conn' = "closed"

\* a failed dial that returns the error and leaves Vulnerable as it was
HBDialFailedNoVerdict ==
  /\ err' = "dial"
  /\ pc' = "done"
  /\ UNCHANGED << Vulnerable, assigns, conn, ExtensionEnabled >>

\* heartbleed.go:69-73: the dial failed
HBDialFailed ==
  /\ Vulnerable' = testFailed
  /\ assigns' = assigns + 1
  /\ err' = "dial"
  /\ pc' = "done"
  /\ UNCHANGED << conn, ExtensionEnabled >>

\* heartbleed.go:63-74: dial
HBDial ==
  /\ UNCHANGED << ccsVars, built, pkg >>
  /\ probe = "hb" /\ pc = "start"
  /\ \E ok \in BOOLEAN :
       IF ok
       THEN /\ conn' = "open"
            /\ pc' = "upgrade"
            /\ UNCHANGED resultVars
       ELSE HBDialFailed
  /\ UNCHANGED << probe, tlsVers, reqVers, wrote, ops, peerVars, scanVars, listenVars >>

\* a Check that goes on to the ClientHello without calling startTLSFunc
HBStartTLSSkipped ==
  /\ UNCHANGED << ccsVars, built, pkg >>
  /\ probe = "hb" /\ pc = "upgrade"
  /\ tlsVers' = clampVersion(tlsVers)
  /\ pc' = "sendHello"
  /\ UNCHANGED << resultVars, conn, ops >>
  /\ UNCHANGED << probe, reqVers, wrote, peerVars, scanVars, listenVars >>

\* heartbleed.go:76-89: clamp the version, call startTLSFunc
HBStartTLS ==
  /\ UNCHANGED << ccsVars, built, pkg >>
  /\ probe = "hb" /\ pc = "upgrade"
  /\ tlsVers' = clampVersion(tlsVers)
  /\ \E ok \in BOOLEAN :
       IF ok
       THEN /\ pc' = "sendHello"
            /\ ops' = [ops EXCEPT !.upgrades = @ + 1]
            /\ UNCHANGED << resultVars, conn >>
       ELSE /\ ReturnClosing(testFailed, "starttls")
            /\ ops' = [ops EXCEPT !.upgrades = @ + 1, !.closes = @ + 1]
            /\ UNCHANGED ExtensionEnabled
  /\ UNCHANGED << probe, reqVers, wrote, peerVars, scanVars, listenVars >>

\* a Check that trims the shared cipher suite catalog while it builds the
\* ClientHello
HBSendHelloTrimmingCatalog ==
  /\ UNCHANGED << ccsVars, built >>
  /\ probe = "hb" /\ pc = "sendHello"
  /\ pkg' = [pkg EXCEPT !.defaultCipherSuites = Tail(@)]
  /\ \E random \in Nonces, ok \in BOOLEAN :
       IF ok
       THEN /\ wrote' = Append(wrote, makeClientHello(tlsVers, random))
            /\ pc' = "scan"
            /\ UNCHANGED << resultVars, conn, ops >>
       ELSE /\ ReturnClosing(testFailed, "write")
            /\ ops' = [ops EXCEPT !.closes = @ + 1]
            /\ UNCHANGED << wrote, ExtensionEnabled >>
  /\ UNCHANGED << probe, tlsVers, reqVers, peerVars, scanVars, listenVars >>

\* heartbleed.go:91-101: build and write the ClientHello (write,
\* heartbleed.go:19-28, fails when the deadline cannot be set or the write
\* fails), then wrap conn in a bufio.Reader
HBSendHello ==
  /\ UNCHANGED << ccsVars, built, pkg >>
  /\ probe = "hb" /\ pc = "sendHello"
  /\ \E random \in Nonces, ok \in BOOLEAN :
       IF ok
       THEN /\ wrote' = Append(wrote, makeClientHello(tlsVers, random))
            /\ pc' = "scan"
            /\ UNCHANGED << resultVars, conn, ops >>
       ELSE /\ ReturnClosing(testFailed, "write")
            /\ ops' = [ops EXCEPT !.closes = @ + 1]
            /\ UNCHANGED << wrote, ExtensionEnabled >>
  /\ UNCHANGED << probe, tlsVers, reqVers, peerVars, scanVars, listenVars >>

\* a search for the digits of the marker anywhere in the rendering, byte
\* boundary or not
markerSeenAnywhere(d) == Occurs(hbMarkerHex, Hex(d))

\* a test for the last four bytes of the marker only
markerSeenLoose(d) == HasSuffix(Hex(d), Drop(hbMarkerHex, 2))

\* a test for the first three bytes of the end of the flight only
flightEndedEarly(d) == HasSuffix(Hex(d), Take(flightEndHex, 6))

\* heartbleed.go:156-159: is the heartbeat extension enabled?
markerSeen(d) == HasSuffix(Hex(d), hbMarkerHex)

\* heartbleed.go:161-164: is the server's hello flight finished?
flightEnded(d) == HasSuffix(Hex(d), flightEndHex)

\* heartbleed.go:104-114: of the errors of checkExtension only one whose
\* text is "EOF" lets Check go on
scanFatalEOFToo(e) == e # "nil"

scanFatal(e) == e \notin { "nil", "EOF" }

\* one round of the loop of checkExtension, heartbleed.go:147-164, and its
\* returns (:150, :166).  ReadByte takes the next buffered byte; with the
\* buffer empty it first fills the buffer with what the socket holds, and
\* fails when the socket holds nothing and the peer closed or reset
HBScan ==
  /\ UNCHANGED << ccsVars, built, pkg >>
  /\ probe = "hb" /\ pc = "scan"
  /\ \/ /\ buf # << >> \/ net # << >>
        /\ LET filled == IF buf = << >> THEN Take(net, BufSize) ELSE buf
               rest == IF buf = << >> THEN Drop(net, BufSize) ELSE net
               d == Append(data, Head(filled))
               flag == hBEnabled \/ markerSeen(d)
           IN /\ buf' = Tail(filled)
              /\ net' = rest
              /\ data' = d
              /\ hBEnabled' = flag
              /\ ops' = [ops EXCEPT !.reads = 1]
              /\ IF flightEnded(d)
                 THEN /\ pc' = "scanned"
                      /\ scan' = [end |-> "marker", err |-> "nil",
                                  cap |-> Occurs(CapMarker, d)]
                 ELSE UNCHANGED << pc, scan >>
     \/ /\ buf = << >> /\ net = << >> /\ peer \in { "closed", "reset" }
        /\ pc' = "scanned"
        /\ scan' = [end |-> peer,
                    err |-> IF peer = "closed" THEN "EOF" ELSE "reset",
                    cap |-> Occurs(CapMarker, data)]
        /\ ops' = [ops EXCEPT !.reads = 1]
        /\ UNCHANGED << buf, net, data, hBEnabled >>
  /\ UNCHANGED << probe, tlsVers, reqVers, resultVars, conn, wrote, peer, netResp,
                  sent, bufResp, listenVars >>

\* a Check that sends the heartbeat request whatever the flag says
HBAfterScanUngated ==
  /\ UNCHANGED << ccsVars, built, pkg >>
  /\ probe = "hb" /\ pc = "scanned"
  /\ data' = << >>
  /\ IF scanFatal(scan.err)
     THEN /\ ReturnClosing(testFailed, scan.err)
          /\ ops' = [ops EXCEPT !.closes = @ + 1]
          /\ UNCHANGED << ExtensionEnabled, wrote, listenVars >>
     ELSE /\ ExtensionEnabled' = TRUE
          /\ \E ok \in BOOLEAN :
               IF ok
               THEN /\ wrote' = Append(wrote, makePayload(tlsVers))
                    /\ pc' = "listen"
                    /\ gpc' = "loop"
                    /\ timeout' = "pending"
                    /\ UNCHANGED << Vulnerable, err, assigns, conn, ops, g,
                                    dataChan, done, hand >>
               ELSE /\ ReturnClosing(testFailed, "write")
                    /\ ops' = [ops EXCEPT !.closes = @ + 1]
                    /\ UNCHANGED << wrote, listenVars >>
  /\ UNCHANGED << probe, tlsVers, reqVers, peerVars, buf, bufResp, hBEnabled, scan >>

\* heartbleed.go:103-136 up to the call of heartbeatListen, and the start
\* of heartbeatListen (:173-180, :187-188): the channels, the goroutine,
\* its timer
HBAfterScan ==
  /\ UNCHANGED << ccsVars, built, pkg >>
  /\ probe = "hb" /\ pc = "scanned"
  /\ data' = << >>
  /\ IF scanFatal(scan.err)
     THEN /\ ReturnClosing(testFailed, scan.err)
          /\ ops' = [ops EXCEPT !.closes = @ + 1]
          /\ UNCHANGED << ExtensionEnabled, wrote, listenVars >>
     ELSE IF hBEnabled
     THEN /\ ExtensionEnabled' = TRUE
          /\ \E ok \in BOOLEAN :
               IF ok
               THEN /\ wrote' = Append(wrote, makePayload(tlsVers))
                    /\ pc' = "listen"
                    /\ gpc' = "loop"
                    /\ timeout' = "pending"
                    /\ UNCHANGED << Vulnerable, err, assigns, conn, ops, g,
                                    dataChan, done, hand >>
               ELSE /\ ReturnClosing(testFailed, "write")
                    /\ ops' = [ops EXCEPT !.closes = @ + 1]
                    /\ UNCHANGED << wrote, listenVars >>
     ELSE /\ ReturnClosing(notApplicable, "nil")
          /\ ops' = [ops EXCEPT !.closes = @ + 1]
          /\ UNCHANGED << ExtensionEnabled, wrote, listenVars >>
  /\ UNCHANGED << probe, tlsVers, reqVers, peerVars, buf, bufResp, hBEnabled, scan >>

(***************************************************************************)
(* heartbeatListen, heartbleed.go:171-230.                                 *)
(***************************************************************************)
\* what the bufio.Reader holds: buff.Buffered()
Buffered == Len(buf) + bufResp

\* what the socket holds
Available == Len(net) + netResp

\* the rounds of the goroutine's loop, heartbleed.go:190-218, that find a
\* byte in the buffer, run one after the other from the state
\* s = [st, bh, br, dh, dr, i]: bh and br are the buffered hello and response
\* bytes, dh and dr the bytes of data taken from each.  Each round takes the
\* default branch of the select (or the timeout branch with data non-empty,
\* which changes nothing), reads one byte (:203), appends it (:208), returns
\* when data holds Threshold bytes (:209-211), and otherwise, when the
\* buffer is empty (:213), counts i up and sleeps (:214-216).  So the rounds
\* read k bytes, up to the buffer's end or the threshold, whichever is first
readRounds(s) ==
  LET k == Min(s.bh + s.br, Threshold - (s.dh + s.dr))
      kh == Min(k, s.bh)
      t == [s EXCEPT !.bh = @ - kh, !.br = @ - (k - kh),
                     !.dh = @ + kh, !.dr = @ + (k - kh)]
  IN IF t.dh + t.dr >= Threshold THEN [t EXCEPT !.st = "ret"]
     ELSE [t EXCEPT !.i = @ + 1, !.st = "sleep"]

\* a loop without the give-up test
loopTopNoGiveUp(s) == readRounds(s)

\* heartbleed.go:199-201: the give-up test at the top of the default branch
loopTop(s) ==
  IF s.i > MaxEmpty /\ s.bh + s.br = 0 THEN [s EXCEPT !.st = "ret"]
  ELSE readRounds(s)

\* a verdict that is left empty below the threshold
heartbeatVerdictUnset(n) == IF n >= Threshold THEN vulnerable ELSE ""

\* a verdict that needs more than the threshold
heartbeatVerdictAbove(n) == IF n > Threshold THEN vulnerable ELSE notVulnerable

\* heartbleed.go:225-229
heartbeatVerdict(n) == IF n >= Threshold THEN vulnerable ELSE notVulnerable

\* the handoff record after the goroutine touched the buffer (read = 1) and
\* after its deferred send (send = 1); a read made when heartbeatListen has
\* returned is a late read
Handoff(read, send) ==
  [hand EXCEPT !.sends = @ + send,
               !.lateReads = @ + (IF pc = "listen" THEN 0 ELSE read)]

\* the goroutine returns: the deferred send of heartbleed.go:183-185
GExit(s, read) ==
  /\ gpc' = "exited"
  /\ dataChan' = Append(dataChan, s.dh + s.dr)
  /\ hand' = Handoff(read, 1)

\* the default branch from the state s (after a fill, if any) until the
\* goroutine returns or sleeps
GRun(s, filled) ==
  LET r == loopTop(s)
      all == IF filled THEN Take(net, BufSize) ELSE buf
  IN /\ g' = [dh |-> r.dh, dr |-> r.dr, i |-> r.i,
              fills |-> g.fills + (IF filled THEN 1 ELSE 0)]
     /\ buf' = SubSeq(all, Len(all) - r.bh + 1, Len(all))
     /\ bufResp' = r.br
     /\ IF r.st = "ret"
        THEN GExit(r, IF s.bh + s.br > 0 THEN 1 ELSE 0)
        ELSE /\ gpc' = "sleep"
             /\ hand' = Handoff(1, 0)
             /\ UNCHANGED dataChan

\* the locals of the goroutine and the buffer, as the loop sees them
GLocals ==
  [st |-> "run", bh |-> Len(buf), br |-> bufResp,
   dh |-> g.dh, dr |-> g.dr, i |-> g.i]

\* one pass of the goroutine from the top of its loop, heartbleed.go:190-218:
\* the select (a ready case is taken, default only when none is ready); in
\* the default branch the give-up test and the reading rounds, or, with
\* the buffer empty, the call of ReadByte that has to fill it
GStep ==
  /\ UNCHANGED << ccsVars, built, pkg >>
  /\ gpc = "loop"
  /\ LET ready == (IF done THEN { "done" } ELSE { })
                    \cup (IF timeout = "fired" THEN { "timeout" } ELSE { })
     IN \E c \in (IF ready = { } THEN { "default" } ELSE ready) :
          \/ /\ c = "done"
             /\ GExit(GLocals, 0)
             /\ UNCHANGED << g, timeout, buf, bufResp >>
          \/ /\ c = "timeout"
             /\ timeout' = "taken"
             /\ IF g.dh + g.dr = 0
                THEN GExit(GLocals, 0)
                ELSE UNCHANGED << gpc, dataChan, hand >>
             /\ UNCHANGED << g, buf, bufResp >>
          \/ /\ c = "default"
             /\ Buffered > 0 \/ g.i > MaxEmpty
             /\ GRun(GLocals, FALSE)
             /\ UNCHANGED timeout
          \/ /\ c = "default"
             /\ Buffered = 0 /\ g.i <= MaxEmpty
             /\ gpc' = "read"
             /\ UNCHANGED << g, timeout, buf, bufResp, dataChan, hand >>
  /\ UNCHANGED << probe, pc, tlsVers, reqVers, resultVars, connVars, peerVars,
                  data, hBEnabled, scan, done >>

\* the ReadByte of heartbleed.go:203 on an empty buffer: it fills the buffer
\* with what the socket holds and the rounds go on, or it fails because the
\* peer closed or reset the connection (:204-206); it has no deadline
GRead ==
  /\ UNCHANGED << ccsVars, built, pkg >>
  /\ gpc = "read"
  /\ \/ /\ Available > 0
        /\ LET takeH == Min(Len(net), BufSize)
               takeR == Min(netResp, BufSize - takeH)
           IN /\ GRun([GLocals EXCEPT !.bh = takeH, !.br = takeR], TRUE)
              /\ net' = Drop(net, BufSize)
              /\ netResp' = netResp - takeR
     \/ /\ Available = 0
        /\ peer \in { "closed", "reset" }
        /\ GExit(GLocals, 1)
        /\ UNCHANGED << g, buf, bufResp, net, netResp >>
  /\ ops' = [ops EXCEPT !.reads = 1]
  /\ UNCHANGED << probe, pc, tlsVers, reqVers, resultVars, conn, wrote, peer,
                  sent, data, hBEnabled, scan, timeout, done >>

\* time.Sleep(100 * time.Millisecond) of heartbleed.go:216 is over
GWake ==
  /\ UNCHANGED << ccsVars, built, pkg >>
  /\ gpc = "sleep"
  /\ gpc' = "loop"
  /\ UNCHANGED << probe, pc, tlsVers, reqVers, resultVars, connVars, peerVars,
                  scanVars, g, timeout, dataChan, done, hand >>

\* the goroutine waits: asleep, or in the ReadByte that fills the buffer
GWaiting == gpc \in { "sleep", "read" }

\* the timer of time.After(1 * time.Second), heartbleed.go:187, fires
TimerFire ==
  /\ UNCHANGED << ccsVars, built, pkg >>
  /\ timeout = "pending"
  /\ GWaiting
  /\ timeout' = "fired"
  /\ UNCHANGED << probe, pc, tlsVers, reqVers, resultVars, connVars, peerVars,
                  scanVars, gpc, g, dataChan, done, hand >>

\* heartbeatListen returning without the receive of heartbleed.go:223 when
\* the goroutine has sent nothing yet
HBListenReturnUnwaited ==
  /\ UNCHANGED << ccsVars, built, pkg >>
  /\ probe = "hb" /\ pc = "listen"
  /\ IF dataChan # << >>
     THEN /\ dataChan' = Tail(dataChan)
          /\ hand' = [hand EXCEPT !.recvs = @ + 1]
          /\ ReturnClosing(heartbeatVerdict(Head(dataChan)), "nil")
     ELSE /\ ReturnClosing(notVulnerable, "nil")
          /\ UNCHANGED << dataChan, hand >>
  /\ done' = TRUE
  /\ ops' = [ops EXCEPT !.closes = @ + 1]
  /\ UNCHANGED << probe, tlsVers, reqVers, ExtensionEnabled, wrote, peerVars,
                  scanVars, gpc, g, timeout >>

\* heartbleed.go:223-229 and :128-130: the caller receives the data, closes
\* done (deferred, :174), and Check returns the verdict
HBListenReturn ==
  /\ UNCHANGED << ccsVars, built, pkg >>
  /\ probe = "hb" /\ pc = "listen"
  /\ dataChan # << >>
  /\ dataChan' = Tail(dataChan)
  /\ hand' = [hand EXCEPT !.recvs = @ + 1]
  /\ done' = TRUE
  /\ ReturnClosing(heartbeatVerdict(Head(dataChan)), "nil")
  /\ ops' = [ops EXCEPT !.closes = @ + 1]
  /\ UNCHANGED << probe, tlsVers, reqVers, ExtensionEnabled, wrote, peerVars,
                  scanVars, gpc, g, timeout >>

(***************************************************************************)
(* The peer of the heartbeat probe.                                        *)
(***************************************************************************)
\* the probe waits for the peer
HBWaiting ==
  \/ pc = "scan" /\ buf = << >>
  \/ pc = "listen" /\ GWaiting

\* the peer sends a piece of its hello flight
PeerHello ==
  /\ UNCHANGED << ccsVars, built, pkg >>
  /\ probe = "hb" /\ pc = "scan" /\ buf = << >>
  /\ peer = "open"
  /\ sent.chunks < MaxHelloChunks
  /\ \E chunk \in HelloChunks : net' = net \o chunk
  /\ sent' = [sent EXCEPT !.chunks = @ + 1]
  /\ UNCHANGED << probe, pc, tlsVers, reqVers, resultVars, connVars, peer, netResp,
                  scanVars, listenVars >>

\* the peer sends a burst of its answer to the heartbeat request
PeerRespond ==
  /\ UNCHANGED << ccsVars, built, pkg >>
  /\ probe = "hb" /\ pc = "listen" /\ GWaiting
  /\ peer = "open"
  /\ sent.bursts < MaxBursts
  /\ \E n \in BurstSizes :
       /\ netResp' = netResp + n
       /\ sent' = [sent EXCEPT !.bursts = @ + 1, !.resp = @ + n]
  /\ UNCHANGED << probe, pc, tlsVers, reqVers, resultVars, connVars, peer, net,
                  scanVars, listenVars >>

(***************************************************************************)
(* CCSInjection.Check and readTLSRecord, ccs.go:62-191.                    *)
(***************************************************************************)
\* the header of the record whose bytes are got (binary.Read into
\* tlsRecordHeader, ccs.go:55-59 and :178)
header(got) ==
  [Type |-> got[1], Version |-> BE(SubSeq(got, 2, 3)),
   Length |-> BE(SubSeq(got, 4, 5))]

\* the body of the record whose bytes are got
body(got) == SubSeq(got, 6, Len(got))

\* a readTLSRecord that asks for one byte more than the header announces
needOneMore(got) ==
  IF Len(got) < 5 THEN 5 - Len(got) ELSE 5 + header(got).Length + 1 - Len(got)

\* the bytes the part of readTLSRecord that is running still asks for: the
\* rest of the 5-byte header (ccs.go:178), then header.Length bytes (:183-185)
need(got) ==
  IF Len(got) < 5 THEN 5 - Len(got) ELSE 5 + header(got).Length - Len(got)

\* readTLSRecord has read a whole record
complete(got) == Len(got) >= 5 /\ need(got) = 0

\* readTLSRecord takes from the bytes avail what it asks for: what is left
\* of the header and, with the header whole, of the body
absorb(got, avail) ==
  LET g1 == got \o Take(avail, need(got))
      a1 == Drop(avail, need(got))
  IN IF Len(got) < 5 /\ Len(g1) = 5
     THEN [got |-> g1 \o Take(a1, need(g1)), rest |-> Drop(a1, need(g1))]
     ELSE [got |-> g1, rest |-> a1]

\* the ways the running readTLSRecord (ccs.go:175-191) can go on: it takes
\* bytes the socket holds ("rec" when the record is whole, "more" when it
\* has to wait again); with the socket empty it fails when the peer closed
\* (io.EOF with nothing read of the part, else io.ErrUnexpectedEOF) or reset
\* the connection, or when the read deadline expires
ReadOutcomes ==
  (IF net # << >>
   THEN { [kind |-> IF complete(absorb(rd, net).got) THEN "rec" ELSE "more",
           got |-> absorb(rd, net).got, rest |-> absorb(rd, net).rest,
           err |-> "nil"] }
   ELSE { })
  \cup
  (IF net = << >> /\ peer = "closed"
   THEN { [kind |-> "err", got |-> rd, rest |-> net,
           err |-> IF Len(rd) \in { 0, 5 } THEN "EOF" ELSE "unexpected EOF"] }
   ELSE { })
  \cup
  (IF net = << >> /\ peer = "reset"
   THEN { [kind |-> "err", got |-> rd, rest |-> net, err |-> "reset"] }
   ELSE { })
  \cup
  (IF net = << >> /\ peer \in { "open", "quiet" } /\ deadline
   THEN { [kind |-> "err", got |-> rd, rest |-> net, err |-> "timeout"] }
   ELSE { })

\* a verdict that looks at the level of the alert only
finalVerdictLevelOnly(got) ==
  IF header(got).Type = recordTypeAlert
  THEN IF Len(body(got)) >= 1 /\ body(got)[1] = alertLevelFatal
       THEN notVulnerable
       ELSE vulnerable
  ELSE vulnerable

\* ccs.go:162-170: the verdict on the record read last
finalVerdict(got) ==
  IF header(got).Type = recordTypeAlert
  THEN IF /\ Len(body(got)) >= 2
          /\ body(got)[1] = alertLevelFatal
          /\ body(got)[2] = alertUnexpectedMessage
       THEN notVulnerable
       ELSE vulnerable
  ELSE vulnerable

\* a wait that any handshake message ends
anyHandshakeMessage(b) == TRUE

\* ccs.go:102-105: is the first handshake message of the record a
\* ServerHelloDone?
isServerHelloDone(b) == b[1] = handshakeTypeServerHelloDone

\* a failed last read taken as the sign of the flaw
readFailureVerdictVulnerable == vulnerable

\* ccs.go:152-160: the verdict when the last read fails
readFailureVerdict == notVulnerable

\* ccs.go:64-78: dial
CCSDial ==
  /\ UNCHANGED << hbVars, ccsVars, built, pkg >>
  /\ probe = "ccs" /\ pc = "start"
  /\ \E ok \in BOOLEAN :
       IF ok
       THEN /\ conn' = "open"
            /\ pc' = "sendHello"
            /\ UNCHANGED resultVars
       ELSE /\ Vulnerable' = testFailed
            /\ assigns' = assigns + 1
            /\ err' = "dial"
            /\ pc' = "done"
            /\ UNCHANGED << conn, ExtensionEnabled >>
  /\ UNCHANGED << probe, wrote, ops, peerVars >>

\* ccs.go:80-87: build and write the ClientHello
CCSSendHello ==
  /\ UNCHANGED << hbVars, ccsVars, built, pkg >>
  /\ probe = "ccs" /\ pc = "sendHello"
  /\ \E random \in Nonces, ok \in BOOLEAN :
       IF ok
       THEN /\ wrote' = Append(wrote, buildClientHello(random))
            /\ pc' = "awaitSHD"
            /\ UNCHANGED << resultVars, conn, ops >>
       ELSE /\ ReturnClosing(testFailed, "write")
            /\ ops' = [ops EXCEPT !.closes = @ + 1]
            /\ UNCHANGED << wrote, ExtensionEnabled >>
  /\ UNCHANGED << probe, peerVars >>

\* ccs.go:89-106: the loop that waits for ServerHelloDone.  body[0] of a
\* handshake record with an empty body is an index out of range: Check
\* panics, and the deferred conn.Close() runs
CCSAwait ==
  /\ UNCHANGED << hbVars, deadline, built, pkg >>
  /\ probe = "ccs" /\ pc = "awaitSHD"
  /\ \E o \in ReadOutcomes :
       /\ net' = o.rest
       /\ CASE o.kind = "more" ->
                 /\ rd' = o.got
                 /\ ops' = [ops EXCEPT !.reads = 1]
                 /\ UNCHANGED << pc, resultVars, conn, ccs >>
            [] o.kind = "err" ->
                 /\ rd' = << >>
                 /\ ReturnClosing(testFailed, o.err)
                 /\ ops' = [ops EXCEPT !.reads = 1, !.closes = @ + 1]
                 /\ UNCHANGED << ExtensionEnabled, ccs >>
            [] o.kind = "rec" ->
                 /\ rd' = << >>
                 /\ IF header(o.got).Type # recordTypeHandshake
                    THEN /\ ops' = [ops EXCEPT !.reads = 1]
                         /\ UNCHANGED << pc, resultVars, conn, ccs >>
                    ELSE IF body(o.got) = << >>
                    THEN /\ pc' = "panic"
                         /\ conn' = "closed"
                         /\ ops' = [ops EXCEPT !.reads = 1, !.closes = @ + 1]
                         /\ UNCHANGED << resultVars, ccs >>
                    ELSE IF isServerHelloDone(body(o.got))
                    THEN /\ pc' = "sendCCS1"
                         /\ ccs' = [ccs EXCEPT !.shd = o.got]
                         /\ ops' = [ops EXCEPT !.reads = 1]
                         /\ UNCHANGED << resultVars, conn >>
                    ELSE /\ ops' = [ops EXCEPT !.reads = 1]
                         /\ UNCHANGED << pc, resultVars, conn, ccs >>
  /\ UNCHANGED << probe, wrote, peer, netResp, sent >>

\* ccs.go:108-125: write the first ChangeCipherSpec, set the read deadline
CCSSendFirst ==
  /\ UNCHANGED << hbVars, rd, ccs, built, pkg >>
  /\ probe = "ccs" /\ pc = "sendCCS1"
  /\ \E ok \in BOOLEAN, okd \in BOOLEAN :
       IF ok /\ okd
       THEN /\ wrote' = Append(wrote, ccsMessage)
            /\ deadline' = TRUE
            /\ pc' = "immRead"
            /\ UNCHANGED << resultVars, conn, ops >>
       ELSE /\ wrote' = IF ok THEN Append(wrote, ccsMessage) ELSE wrote
            /\ ReturnClosing(testFailed, IF ok THEN "deadline" ELSE "write")
            /\ ops' = [ops EXCEPT !.closes = @ + 1]
            /\ UNCHANGED << deadline, ExtensionEnabled >>
  /\ UNCHANGED << probe, peerVars >>

\* ccs.go:127-134: the read that looks for an immediate answer
CCSImmRead ==
  /\ UNCHANGED << hbVars, deadline, built, pkg >>
  /\ probe = "ccs" /\ pc = "immRead"
  /\ \E o \in ReadOutcomes :
       /\ net' = o.rest
       /\ CASE o.kind = "more" ->
                 /\ rd' = o.got
                 /\ ops' = [ops EXCEPT !.reads = 1]
                 /\ UNCHANGED << pc, resultVars, conn, ccs >>
            [] o.kind = "rec" ->
                 /\ rd' = << >>
                 /\ ccs' = [ccs EXCEPT !.imm = "rec", !.immGot = o.got]
                 /\ ReturnClosing(notVulnerable, "nil")
                 /\ ops' = [ops EXCEPT !.reads = 1, !.closes = @ + 1]
                 /\ UNCHANGED ExtensionEnabled
            [] o.kind = "err" ->
                 /\ rd' = << >>
                 /\ ccs' = [ccs EXCEPT !.imm = o.err, !.immGot = o.got]
                 /\ pc' = "sendCCS2"
                 /\ ops' = [ops EXCEPT !.reads = 1]
                 /\ UNCHANGED << resultVars, conn >>
  /\ UNCHANGED << probe, wrote, peer, netResp, sent >>

\* ccs.go:136-150: clear the read deadline, write the second ChangeCipherSpec
CCSSendSecond ==
  /\ UNCHANGED << hbVars, rd, ccs, built, pkg >>
  /\ probe = "ccs" /\ pc = "sendCCS2"
  /\ \E okd \in BOOLEAN, ok \in BOOLEAN :
       IF okd /\ ok
       THEN /\ deadline' = FALSE
            /\ wrote' = Append(wrote, ccsMessage)
            /\ pc' = "finalRead"
            /\ UNCHANGED << resultVars, conn, ops >>
       ELSE /\ deadline' = IF okd THEN FALSE ELSE deadline
            /\ ReturnClosing(testFailed, IF okd THEN "write" ELSE "deadline")
            /\ ops' = [ops EXCEPT !.closes = @ + 1]
            /\ UNCHANGED << wrote, ExtensionEnabled >>
  /\ UNCHANGED << probe, peerVars >>

\* ccs.go:152-172: the last read and the verdict
CCSFinalRead ==
  /\ UNCHANGED << hbVars, deadline, built, pkg >>
  /\ probe = "ccs" /\ pc = "finalRead"
  /\ \E o \in ReadOutcomes :
       /\ net' = o.rest
       /\ CASE o.kind = "more" ->
                 /\ rd' = o.got
                 /\ ops' = [ops EXCEPT !.reads = 1]
                 /\ UNCHANGED << pc, resultVars, conn, ccs >>
            [] o.kind = "rec" ->
                 /\ rd' = << >>
                 /\ ccs' = [ccs EXCEPT !.fin = "rec", !.finGot = o.got]
                 /\ ReturnClosing(finalVerdict(o.got), "nil")
                 /\ ops' = [ops EXCEPT !.reads = 1, !.closes = @ + 1]
                 /\ UNCHANGED ExtensionEnabled
            [] o.kind = "err" ->
                 /\ rd' = << >>
                 /\ ccs' = [ccs EXCEPT !.fin = o.err, !.finGot = o.got]
                 /\ ReturnClosing(readFailureVerdict, "nil")
                 /\ ops' = [ops EXCEPT !.reads = 1, !.closes = @ + 1]
                 /\ UNCHANGED ExtensionEnabled
  /\ UNCHANGED << probe, wrote, peer, netResp, sent >>

(***************************************************************************)
(* The peer of the CCS probe.                                              *)
(***************************************************************************)
\* a ServerHelloDone record
RecServerHelloDone == << 22, 3, 1, 0, 4, 14, 0, 0, 0 >>

\* a fatal unexpected_message alert
RecAlertUnexpected == << 21, 3, 1, 0, 2, 2, 10 >>

\* what the peer may send to the CCS probe: whole records (ServerHelloDone,
\* the expected alert, a fatal handshake_failure alert, an alert with a
\* one-byte body, application data, a handshake record with an empty body,
\* a ServerHello-like handshake record) and the two pieces of an alert
RecChunks ==
  { RecServerHelloDone, RecAlertUnexpected,
    << 21, 3, 1, 0, 2, 2, 40 >>, << 21, 3, 1, 0, 1, 2 >>,
    << 23, 3, 1, 0, 1, 104 >>, << 22, 3, 1, 0, 0 >>, << 22, 3, 1, 0, 1, 2 >>,
    << 21 >>, << 3, 1, 0, 2, 2, 10 >> }

\* the CCS probe is in a read
CCSWaiting == pc \in { "awaitSHD", "immRead", "finalRead" }

\* the peer sends a record or a piece of one
PeerRecord ==
  /\ UNCHANGED << hbVars, ccsVars, built, pkg >>
  /\ probe = "ccs" /\ CCSWaiting
  /\ peer = "open"
  /\ sent.chunks < MaxRecChunks
  /\ \E chunk \in RecChunks :
       /\ net' = net \o chunk
       /\ sent' = [sent EXCEPT !.chunks = @ + 1, !.stream = @ \o chunk]
  /\ UNCHANGED << probe, pc, resultVars, connVars, peer, netResp >>

\* the probe waits for the peer
Waiting ==
  \/ probe = "hb" /\ HBWaiting
  \/ probe = "ccs" /\ CCSWaiting

\* the peer stops sending: it stays silent with the connection open, closes
\* the connection, or resets it
PeerEnd ==
  /\ UNCHANGED << ccsVars, built, pkg >>
  /\ Waiting
  /\ peer = "open"
  /\ peer' \in { "quiet", "closed", "reset" }
  /\ UNCHANGED << probe, pc, tlsVers, reqVers, resultVars, connVars, net, netResp,
                  sent, scanVars, listenVars >>

(***************************************************************************)
(* Direct calls of the message builders.                                   *)
(***************************************************************************)
\* calls of the builders made in one run
MaxBuilds == 2

\* the builders
BuildKinds == { "hello", "helloComputed", "payload", "ccsHello", "ccs" }

\* the message a builder returns
BuildMsg(kind, v, random) ==
  CASE kind = "hello" -> makeClientHello(v, random)
    [] kind = "helloComputed" -> makeClientHelloComputed(v, random)
    [] kind = "payload" -> makePayload(v)
    [] kind = "ccsHello" -> buildClientHello(random)
    [] kind = "ccs" -> ccsMessage

\* a builder is called with a version and the random source yields random
Build ==
  /\ probe = "build"
  /\ Len(built) < MaxBuilds
  /\ \E kind \in BuildKinds :
       \E v \in (IF kind \in { "hello", "helloComputed", "payload" }
                 THEN Versions ELSE { 0 }) :
         \E random \in (IF kind \in { "hello", "helloComputed", "ccsHello" }
                        THEN Nonces ELSE { << >> }) :
           built' = Append(built, [kind |-> kind, vers |-> v,
                                   msg |-> BuildMsg(kind, v, random)])
  /\ UNCHANGED << probe, pc, resultVars, connVars, peerVars, hbVars, ccsVars, pkg >>

Next ==
  \/ HBDial \/ HBStartTLS \/ HBSendHello \/ HBScan \/ HBAfterScan
  \/ GStep \/ GRead \/ GWake \/ TimerFire \/ HBListenReturn
  \/ PeerHello \/ PeerRespond \/ PeerEnd
  \/ CCSDial \/ CCSSendHello \/ CCSAwait \/ CCSSendFirst \/ CCSImmRead
  \/ CCSSendSecond \/ CCSFinalRead \/ PeerRecord
  \/ Build

Spec == Init /\ [][Next]_vars
\* the steps of the probe itself: the code of Check, of the goroutine and the
\* runtime's timer.  The peer's steps are not among them
ProbeNext ==
  \/ HBDial \/ HBStartTLS \/ HBSendHello \/ HBScan \/ HBAfterScan
  \/ GStep \/ GRead \/ GWake \/ TimerFire \/ HBListenReturn
  \/ CCSDial \/ CCSSendHello \/ CCSAwait \/ CCSSendFirst \/ CCSImmRead
  \/ CCSSendSecond \/ CCSFinalRead

\* the probe's code keeps running and its timers expire; the peer may stop
\* at any point
FairSpec == Spec /\ WF_vars(ProbeNext)

(***************************************************************************)
(* Properties.                                                             *)
(***************************************************************************)
\* the malformed heartbeat request is among the messages written
HeartbeatWritten ==
  \E k \in 1..Len(wrote) : wrote[k][1] = recordTypeHeartbeat

\* C1: when the capability scan of Heartbleed.Check ends, by the flight-end
\* marker or by the end of the stream, and the peer never emitted the bytes
\* 00 0F 00 01 01, then whatever version was requested the heartbeat
\* request is never written, ExtensionEnabled stays false, and Check
\* returns "n/a" with a nil error
C1_NoMarkerNotApplicable ==
  (probe = "hb" /\ scan.end \in { "marker", "closed" } /\ ~scan.cap)
    => /\ ~ExtensionEnabled
       /\ ~HeartbeatWritten
       /\ pc \in { "scanned", "done" }
       /\ pc = "done" => (Vulnerable = notApplicable /\ err = "nil")

\* Check was asked for a version above TLS 1.2, the flight ended without
\* the marker, and Check has returned
C1_Witness ==
  /\ probe = "hb" /\ pc = "done"
  /\ reqVers > VersionTLS12
  /\ scan.end = "marker" /\ ~scan.cap
  /\ Vulnerable = notApplicable

\* C2: a peer that emitted both markers and, after the heartbeat request,
\* sent at least 1600 bytes while the collector was still waiting gets
\* ExtensionEnabled = true and "yes" with a nil error, however the bytes
\* are split into bursts (the hello flight ending with its marker, so that
\* the collector sees the answer only)
C2_EnoughBytesMeansYes ==
  (/\ probe = "hb" /\ pc = "done"
   /\ scan.end = "marker" /\ scan.cap
   /\ HeartbeatWritten /\ g.dh = 0
   /\ sent.resp >= Threshold)
    => (ExtensionEnabled /\ Vulnerable = vulnerable /\ err = "nil")

\* C3: a peer that emitted both markers and, after the heartbeat request,
\* sends fewer than 1600 bytes or none and then nothing more gets
\* ExtensionEnabled = true and "no" with a nil error
C3_FewBytesMeansNo ==
  (/\ probe = "hb" /\ pc = "listen"
   /\ scan.end = "marker" /\ scan.cap
   /\ peer = "quiet"
   /\ sent.resp < Threshold)
    ~> (/\ pc = "done"
        /\ ExtensionEnabled /\ Vulnerable = notVulnerable /\ err = "nil")

\* C8: once the connection is established, Check of either probe
\* eventually returns, whatever the peer does
C8_CheckReturns ==
  (probe \in { "hb", "ccs" } /\ conn = "open") ~> (pc = "done")

\* C9: once heartbeatListen is started, the goroutine eventually hands off
\* its data and heartbeatListen returns a verdict
C9_ListenReturns ==
  (probe = "hb" /\ pc = "listen")
    ~> (/\ pc = "done" /\ hand.sends = 1 /\ hand.recvs = 1
        /\ Vulnerable \in { vulnerable, notVulnerable })

CCSWritten ==
  Cardinality({ k \in 1..Len(wrote) :
                  wrote[k][1] = recordTypeChangeCipherSpec })

\* the bytes b are one whole record: a 5-byte header and as many bytes as
\* its length field says
WholeRecord(b) == Len(b) >= 5 /\ Len(b) = 5 + 256 * b[4] + b[5]

\* C4: when the read that follows the first ChangeCipherSpec has ended and
\* the peer had delivered it one whole record, of any type, before the
\* deadline, Check has returned "no" with a nil error and the second
\* ChangeCipherSpec is never written
C4_ImmediateRecordMeansNo ==
  (probe = "ccs" /\ ccs.imm # "none" /\ WholeRecord(ccs.immGot))
    => /\ pc = "done"
       /\ Vulnerable = notVulnerable /\ err = "nil"
       /\ CCSWritten = 1

\* Check has returned after an application data record answered the first
\* ChangeCipherSpec
C4_Witness ==
  /\ probe = "ccs" /\ pc = "done"
  /\ ccs.imm = "rec" /\ ccs.immGot = << 23, 3, 1, 0, 1, 104 >>
  /\ Vulnerable = notVulnerable /\ CCSWritten = 1

\* the record b is a fatal unexpected_message alert
FatalUnexpectedAlert(b) ==
  /\ b[1] = recordTypeAlert
  /\ Len(b) >= 7
  /\ b[6] = alertLevelFatal /\ b[7] = alertUnexpectedMessage

\* C5: when a record is read after the second ChangeCipherSpec, Check
\* returns a nil error and the verdict "no" exactly when the record is an
\* alert whose body starts with fatal, unexpected_message, and "yes" for
\* every other record
C5_FinalClassification ==
  (probe = "ccs" /\ pc = "done" /\ ccs.fin = "rec")
    => /\ err = "nil"
       /\ WholeRecord(ccs.finGot)
       /\ Vulnerable = IF FatalUnexpectedAlert(ccs.finGot)
                       THEN notVulnerable ELSE vulnerable

\* the peer was silent until the deadline passed, then answered the second
\* ChangeCipherSpec with a fatal handshake_failure alert: "yes"
C5_Witness ==
  /\ probe = "ccs" /\ pc = "done"
  /\ ccs.imm = "timeout" /\ ccs.immGot = << >>
  /\ ccs.fin = "rec" /\ ccs.finGot = << 21, 3, 1, 0, 2, 2, 40 >>
  /\ Vulnerable = vulnerable

\* C6: when the dial fails, Check of either probe returns a non-nil error
\* and Vulnerable = "error", and there was no upgrade call, no write and no
\* read
C6_DialFailure ==
  (probe \in { "hb", "ccs" } /\ pc = "done" /\ conn = "none")
    => /\ err # "nil"
       /\ Vulnerable = testFailed
       /\ ops = [upgrades |-> 0, reads |-> 0, closes |-> 0]
       /\ wrote = << >>

\* Check of the heartbeat probe has returned after a failed dial
C6_Witness ==
  /\ probe = "hb" /\ pc = "done" /\ conn = "none"
  /\ err = "dial" /\ Vulnerable = testFailed

\* the messages the builders produced: those written to the peer and those
\* of the direct calls
Messages ==
  { wrote[k] : k \in 1..Len(wrote) } \cup { built[k].msg : k \in 1..Len(built) }

\* C7: in every message of the builders the record length field is the
\* number of bytes after the 5-byte record header, and in a ClientHello
\* the 24-bit handshake length field is the number of bytes after the
\* 4-byte handshake header
C7_LengthFieldsMatch ==
  \A m \in Messages :
    /\ 256 * m[4] + m[5] = Len(m) - 5
    /\ (m[1] = recordTypeHandshake /\ m[6] = handshakeTypeClientHello)
         => 65536 * m[7] + 256 * m[8] + m[9] = Len(m) - 9

\* C11: Check of either probe returns a non-nil error exactly when it
\* leaves the verdict "error"; the end of the stream during the capability
\* scan and a failed read after either ChangeCipherSpec are absorbed: unless
\* a later write or deadline call fails, Check returns nil and a verdict
\* other than "error"
C11_ErrorIffErrorVerdict ==
  (probe \in { "hb", "ccs" } /\ pc = "done")
    => /\ err # "nil" <=> Vulnerable = testFailed
       /\ (scan.err = "EOF" /\ err # "write")
            => (err = "nil" /\ Vulnerable # testFailed)
       /\ (ccs.imm \notin { "none", "rec" } /\ err \notin { "write", "deadline" })
            => (err = "nil" /\ Vulnerable # testFailed)
       /\ ccs.fin \notin { "none", "rec" }
            => (err = "nil" /\ Vulnerable = notVulnerable)

\* the CCS probe has returned after its immediate read timed out and its
\* final read met the end of the stream
C11_Witness ==
  /\ probe = "ccs" /\ pc = "done"
  /\ ccs.imm = "timeout" /\ ccs.fin = "EOF"
  /\ err = "nil" /\ Vulnerable = notVulnerable

\* C12: Vulnerable is assigned at most once, and when Check has returned it
\* was assigned exactly once and holds "n/a", "no", "yes" or "error" for the
\* heartbeat probe, "no", "yes" or "error" for the CCS probe
C12_VerdictSettledOnce ==
  /\ assigns <= 1
  /\ assigns = 0 => Vulnerable = ""
  /\ (probe = "hb" /\ pc = "done")
       => /\ assigns = 1
          /\ Vulnerable \in { notApplicable, notVulnerable, vulnerable, testFailed }
  /\ (probe = "ccs" /\ pc = "done")
       => /\ assigns = 1
          /\ Vulnerable \in { notVulnerable, vulnerable, testFailed }

\* heartbeatListen gave the verdict "no" and Check has returned
C12_Witness ==
  /\ probe = "hb" /\ pc = "done"
  /\ hand.recvs = 1 /\ assigns = 1
  /\ Vulnerable = notVulnerable

\* C13: a Check that returns after a successful dial has closed its
\* connection exactly once, nothing is read or written on the connection
\* after the close, and a Check whose dial failed closes nothing
C13_ClosedOnceAtTheEnd ==
  /\ [](/\ ops.closes <= 1
        /\ ops.closes = 1 <=> conn = "closed"
        /\ (probe \in { "hb", "ccs" } /\ pc = "done")
             => (conn \in { "none", "closed" }))
  /\ [][conn = "closed"
          => UNCHANGED << wrote, ops, net, netResp, buf, bufResp, rd >>]_vars

\* the heartbeat probe has returned after reads and writes and one close
C13_Witness ==
  /\ probe = "hb" /\ pc = "done"
  /\ conn = "closed" /\ ops.closes = 1
  /\ ops.reads = 1 /\ Len(wrote) = 2

\* C14: Heartbleed.Check calls the STARTTLS collaborator once after a
\* successful dial and before it writes any TLS bytes; when the
\* collaborator fails, Check returns that error with "error" and nothing
\* written
C14_UpgradeOnceBeforeWrites ==
  probe = "hb"
    => /\ ops.upgrades <= 1
       /\ wrote # << >> => ops.upgrades = 1
       /\ pc \in { "sendHello", "scan", "scanned", "listen" } => ops.upgrades = 1
       /\ (pc = "done" /\ conn # "none") => ops.upgrades = 1
       /\ err = "starttls"
            => (pc = "done" /\ Vulnerable = testFailed /\ wrote = << >>)

\* the collaborator failed and Check has returned
C14_Witness ==
  /\ probe = "hb" /\ pc = "done"
  /\ ops.upgrades = 1 /\ err = "starttls"
  /\ Vulnerable = testFailed /\ wrote = << >>

\* the version bytes a request for reqVers must produce: min(v, 0x0303)
ClampedBytes ==
  IF reqVers < 771 THEN << reqVers \div 256, reqVers % 256 >> ELSE << 3, 3 >>

\* C15: whatever version is requested, the record version of the
\* ClientHello and of the heartbeat request and the handshake version of
\* the ClientHello that Heartbleed.Check writes are min(v, 0x0303), and the
\* clamp is done before the first message is built
C15_VersionClamped ==
  probe = "hb"
    => /\ \A k \in 1..Len(wrote) :
            /\ SubSeq(wrote[k], 2, 3) = ClampedBytes
            /\ wrote[k][1] = recordTypeHandshake
                 => SubSeq(wrote[k], 10, 11) = ClampedBytes
       /\ pc \notin { "start", "upgrade" } /\ conn # "none" => tlsVers <= VersionTLS12

\* TLS 1.3 was requested and both messages were written with 03 03
C15_Witness ==
  /\ probe = "hb" /\ reqVers = 772
  /\ Len(wrote) = 2
  /\ SubSeq(wrote[1], 2, 3) = << 3, 3 >> /\ SubSeq(wrote[1], 10, 11) = << 3, 3 >>
  /\ SubSeq(wrote[2], 2, 3) = << 3, 3 >>

\* the builders whose message holds a random nonce
NonceKinds == { "hello", "helloComputed", "ccsHello" }

C18_ScanFailureBenign ==
  (probe = "hb" /\ scan.end \in { "closed", "reset" } /\ pc \in { "listen", "done" })
    => /\ err \in { "nil", "write" }
       /\ hBEnabled => (HeartbeatWritten \/ err = "write")
       /\ ~hBEnabled => (Vulnerable = notApplicable /\ err = "nil")

\* C19: the count heartbeatListen compares with 1600 holds only bytes the
\* peer sent after the heartbeat request was written, so the verdict "yes"
\* means the peer answered the request with at least 1600 bytes
C19_OnlyResponseCounted ==
  (probe = "hb" /\ pc = "done" /\ Vulnerable = vulnerable)
    => (g.dh = 0 /\ sent.resp >= Threshold)

\* C20: whatever records the peer sends while the CCS probe waits for
\* ServerHelloDone, a handshake record of length 0 included, Check never
\* reads a body byte that is not there: it does not end in a run-time fault
C20_NoRuntimeFault == pc # "panic"

\* C21: the second ChangeCipherSpec is written only when the read after the
\* first one ended because its deadline expired; a read that failed for
\* another reason, such as the peer closing the connection, does not lead
\* to the second ChangeCipherSpec
C21_SecondCCSOnlyAfterTimeout ==
  (probe = "ccs" /\ CCSWritten = 2) => ccs.imm = "timeout"

\* C22: Heartbleed.Check writes the heartbeat request at most once, as its
\* second message after the ClientHello and only when the capability scan
\* has ended with the flag true; with the flag false the request is never
\* written and the goroutine of heartbeatListen is never started
C22_HeartbeatGated ==
  probe = "hb"
    => /\ Len(wrote) <= 2
       /\ \A k \in 1..Len(wrote) :
            wrote[k][1] = IF k = 1 THEN recordTypeHandshake ELSE recordTypeHeartbeat
       /\ HeartbeatWritten => (scan.end # "none" /\ hBEnabled /\ pc \in { "listen", "done" })
       /\ gpc # "idle" => HeartbeatWritten
       /\ (scan.end # "none" /\ ~hBEnabled) => (~HeartbeatWritten /\ gpc = "idle")

\* the scan ended with the flag true, the request was written after the
\* ClientHello and the goroutine runs
C22_Witness ==
  /\ probe = "hb" /\ pc = "listen"
  /\ hBEnabled /\ scan.end = "marker"
  /\ Len(wrote) = 2 /\ wrote[2][1] = recordTypeHeartbeat
  /\ gpc # "idle"

\* C23: checkExtension never resets its flag from true to false, and the
\* flag is true exactly when the bytes 00 0F 00 01 01 occur contiguously, at
\* byte boundaries, in the bytes consumed so far; digits of the marker that
\* straddle half-bytes of the hexadecimal rendering do not count
C23_FlagTracksMarker ==
  /\ [](probe = "hb" /\ pc \in { "scan", "scanned" }
          => (hBEnabled <=> Occurs(CapMarker, data)))
  /\ [](probe = "hb" /\ scan.end # "none" => (hBEnabled <=> scan.cap))
  /\ [][hBEnabled => hBEnabled']_vars

\* the scan consumed bytes whose rendering holds the marker's digits half a
\* byte off, and no marker: the flag is false
C23_Witness ==
  /\ probe = "hb" /\ pc = "scanned" /\ scan.end = "marker"
  /\ Occurs(ShiftedMarker, data)
  /\ ~hBEnabled

\* C24: checkExtension consumes the stream up to and including the last
\* byte of the first 0E 00 00 00 and no byte beyond it; it returns a nil
\* error exactly when it stopped because of that marker, and otherwise the
\* read error together with the flag as it stood
C24_ScanStopsAtFlightEnd ==
  probe = "hb"
    => /\ pc = "scan" => ~Occurs(FlightEnd, data)
       /\ pc = "scanned"
            => /\ scan.err = "nil" <=> scan.end = "marker"
               /\ scan.end = "marker"
                    => /\ HasSuffix(data, FlightEnd)
                       /\ ~Occurs(FlightEnd, Take(data, Len(data) - 1))
               /\ scan.end # "marker"
                    => /\ ~Occurs(FlightEnd, data)
                       /\ scan.err \in { "EOF", "reset" }
                       /\ buf = << >> /\ net = << >>
               /\ hBEnabled <=> Occurs(CapMarker, data)

\* the scan stopped at the marker while the peer had already sent more: the
\* later bytes are not consumed
C24_Witness ==
  /\ probe = "hb" /\ pc = "scanned" /\ scan.end = "marker" /\ scan.err = "nil"
  /\ HasSuffix(data, FlightEnd)
  /\ buf # << >>

\* C25: the goroutine of heartbeatListen never accumulates more than 1600
\* bytes, it returns as soon as it holds 1600, and the verdict is "yes"
\* exactly when the count it hands over is at least 1600: 1600 gives "yes",
\* 1599 gives "no"
C25_ThresholdExact ==
  probe = "hb"
    => /\ g.dh + g.dr <= 1600
       /\ g.dh + g.dr = 1600 => gpc = "exited"
       /\ \A k \in 1..Len(dataChan) : dataChan[k] = g.dh + g.dr
       /\ (pc = "done" /\ hand.recvs = 1)
            => /\ Vulnerable = (IF g.dh + g.dr >= 1600 THEN "yes" ELSE "no")
               /\ err = "nil"

\* the goroutine stopped at exactly 1600 bytes although the peer had sent
\* more, and the verdict is "yes"
C25_Witness ==
  /\ probe = "hb" /\ pc = "done" /\ hand.recvs = 1
  /\ g.dh + g.dr = 1600
  /\ Buffered + Available > 0
  /\ Vulnerable = "yes"

\* C26: the first ChangeCipherSpec is written only after a Handshake record
\* (type 22) whose first body byte is 14 has been read; records of other
\* types read before it are discarded without changing the verdict, and a
\* read that fails during the wait ends Check with that error and "error",
\* no ChangeCipherSpec ever written
C26_FirstCCSAfterServerHelloDone ==
  probe = "ccs"
    => /\ CCSWritten >= 1
            => /\ Len(ccs.shd) >= 6
               /\ ccs.shd[1] = 22
               /\ ccs.shd[6] = 14
       /\ pc = "awaitSHD" => (Vulnerable = "" /\ assigns = 0 /\ CCSWritten = 0)
       /\ (pc = "done" /\ Len(wrote) = 1 /\ ccs.shd = << >>)
            => /\ Vulnerable = "error"
               /\ err \in { "EOF", "unexpected EOF", "reset" }

\* the first ChangeCipherSpec is on the wire after the peer sent an
\* application data record and then ServerHelloDone
C26_Witness ==
  /\ probe = "ccs" /\ CCSWritten = 1
  /\ Len(sent.stream) >= 1 /\ sent.stream[1] = 23
  /\ ccs.shd = RecServerHelloDone

\* C27: when the last read of CCSInjection.Check fails, for whatever
\* reason, Check returns a nil error with the verdict "no", never "yes" and
\* never "error"
C27_FinalReadFailureMeansNo ==
  (probe = "ccs" /\ ccs.fin \notin { "none", "rec" })
    => (pc = "done" /\ err = "nil" /\ Vulnerable = "no")

\* the last read ended in the middle of a record because the peer closed
C27_Witness ==
  /\ probe = "ccs" /\ pc = "done"
  /\ ccs.fin = "unexpected EOF"
  /\ Vulnerable = "no"

\* C28: when Heartbleed.Check has returned, the verdict "n/a" comes with
\* ExtensionEnabled false, the verdicts "yes" and "no" come with
\* ExtensionEnabled true, and ExtensionEnabled is true only if the marker
\* 00 0F 00 01 01 was in the bytes the scan consumed
C28_ExtensionFieldConsistent ==
  probe = "hb"
    => /\ ExtensionEnabled => scan.cap
       /\ pc = "done"
            => /\ Vulnerable = "n/a" => ~ExtensionEnabled
               /\ Vulnerable \in { "yes", "no" } => ExtensionEnabled

\* Check returned "no" after a scan that saw the marker
C28_Witness ==
  /\ probe = "hb" /\ pc = "done"
  /\ Vulnerable = "no"
  /\ ExtensionEnabled /\ scan.cap

\* the offsets in the stream s, from off on, at which a record begins when
\* the stream is cut into records by the lengths in their headers
RECURSIVE RecordStartsFrom(_, _)
RecordStartsFrom(s, off) ==
  IF Len(s) - off < 5 THEN { off }
  ELSE { off } \cup RecordStartsFrom(s, off + 5 + BE(SubSeq(s, off + 4, off + 5)))

\* the peer has sent whole records, in one piece or in several
WholeRecordsSent == Len(sent.stream) \in RecordStartsFrom(sent.stream, 0)

\* C29: every 5-byte header readTLSRecord parses begins at a record boundary
\* of the peer's stream, the header of the last read included when the read
\* before it ended by the expiry of its deadline: a record received in part
\* is not parsed again from its middle
C29_HeadersAtRecordBoundaries ==
  (probe = "ccs" /\ WholeRecordsSent)
    => /\ (CCSWaiting /\ Len(rd) >= 5)
            => (Len(sent.stream) - Len(net) - Len(rd))
                 \in RecordStartsFrom(sent.stream, 0)
       /\ Len(ccs.finGot) >= 5
            => (Len(sent.stream) - Len(net) - Len(ccs.finGot))
                 \in RecordStartsFrom(sent.stream, 0)

\* C30: the goroutine of heartbeatListen hands its data over no later than
\* directly after the fourth time it finds the buffer empty after consuming
\* a byte, so it consumes at most four fills of the buffer; and the handoff
\* happens with the channel done still open: the done branch of the select
\* is never the one that ends the goroutine
C30_GiveUpAfterFourEmptyings ==
  /\ [](probe = "hb"
          => /\ g.i <= 4
             /\ g.fills <= 4
             /\ g.i = 4 => gpc \in { "loop", "sleep", "exited" }
             /\ hand.sends <= 1
             /\ gpc # "exited" => ~done)
  /\ [][/\ (g.i = 4 /\ gpc = "loop" /\ gpc' # "loop")
             => (gpc' = "exited" /\ g' = g /\ buf' = buf /\ bufResp' = bufResp)
        /\ hand'.sends > hand.sends => ~done]_vars

\* the goroutine returned after the fourth emptying, four fills consumed,
\* below the threshold, and heartbeatListen took the data and closed done
C30_Witness ==
  /\ probe = "hb" /\ gpc = "exited"
  /\ g.i = 4 /\ g.fills = 4
  /\ g.dh + g.dr < 1600
  /\ hand.sends = 1 /\ hand.recvs = 1 /\ done

====
